---- MODULE Spec2Model ----
(***************************************************************************)
(* Model of flipeador/node-http-cors: index.js and src/index.js.           *)
(*                                                                         *)
(* JavaScript values are records [t, s, n, e]: t is the typeof-like tag,   *)
(* s the text of a string (or the source of a regexp / name of a           *)
(* function), n the number (or 1/0 for a boolean), e the elements of an    *)
(* array.  A response is the sink the code writes to: the headers set with *)
(* setHeader, the names passed to vary(), the status code and the number   *)
(* of status() and end() calls.                                            *)
(***************************************************************************)
EXTENDS Integers, Sequences, FiniteSets

VARIABLES impl, options, req, res, ret, nextCalls, runs, pc

vars == <<impl, options, req, res, ret, nextCalls, runs, pc>>

(* ------------------------------ bounds -------------------------------- *)

\* Evaluations of setCors made directly on one request/response pair.
MaxRuns == 2

(* -------------------------- JavaScript values ------------------------- *)

JsVal(t, s, n, e) == [t |-> t, s |-> s, n |-> n, e |-> e]

Undef == JsVal("undefined", "", 0, <<>>)
Str(s) == JsVal("string", s, 0, <<>>)
Num(n) == JsVal("number", "", n, <<>>)
Bool(b) == JsVal("boolean", "", IF b THEN 1 ELSE 0, <<>>)
Arr(e) == JsVal("object:Array", "", 0, e)
\* A regular expression without the g/y flags whose pattern is ^<prefix>.
RegExp(prefix) == JsVal("object:RegExp", prefix, 0, <<>>)
\* A function, by name; Call gives what it returns.
Fn(name) == JsVal("function", name, 0, <<>>)

\* ToBoolean: undefined, "", 0 and false are falsy; every object is truthy.
Truthy(v) ==
    CASE v.t = "undefined" -> FALSE
      [] v.t = "string" -> v.s # ""
      [] v.t = "number" -> v.n # 0
      [] v.t = "boolean" -> v.n = 1
      [] OTHER -> TRUE

Digit(d) == SubSeq("0123456789", d + 1, d + 1)

RECURSIVE NumToStr(_)
NumToStr(n) == IF n < 10 THEN Digit(n) ELSE NumToStr(n \div 10) \o Digit(n % 10)

\* `${v}`: ToString.  An array renders as Array.prototype.join(','), which
\* renders an undefined element as the empty string.
RECURSIVE ToString(_)
ToString(v) ==
    CASE v.t = "undefined" -> "undefined"
      [] v.t = "string" -> v.s
      [] v.t = "number" -> NumToStr(v.n)
      [] v.t = "boolean" -> IF v.n = 1 THEN "true" ELSE "false"
      [] v.t = "object:Array" ->
            IF v.e = <<>> THEN ""
            ELSE LET first == IF v.e[1].t = "undefined" THEN "" ELSE ToString(v.e[1])
                 IN IF Len(v.e) = 1 THEN first
                    ELSE first \o "," \o ToString(Arr(Tail(v.e)))
      [] OTHER -> v.s

\* typeof(v): "object" for arrays and regular expressions.
Typeof(v) == IF v.t \in {"object:Array", "object:RegExp"} THEN "object" ELSE v.t

StartsWith(str, prefix) ==
    Len(str) >= Len(prefix) /\ SubSeq(str, 1, Len(prefix)) = prefix

\* RegExp.prototype.test(v): the argument is converted to a string.
RegExpTest(re, v) == Bool(StartsWith(ToString(v), re.s))

\* The predicates a configuration can hold, applied to one argument.
Call(fn, arg) ==
    CASE fn.s = "isB" -> Bool(arg = Str("https://b.example"))
      [] fn.s = "isLocal" -> IF arg.t = "string" /\ StartsWith(arg.s, "http://localhost")
                             THEN Num(1) ELSE Num(0)
      [] OTHER -> Undef

(* --------------------------- the response sink ------------------------ *)

ACAO == "Access-Control-Allow-Origin"
ACAC == "Access-Control-Allow-Credentials"
ACEH == "Access-Control-Expose-Headers"
ACAH == "Access-Control-Allow-Headers"
ACAM == "Access-Control-Allow-Methods"
ACMA == "Access-Control-Max-Age"

CorsHeaders == {ACAO, ACAC, ACEH, ACAH, ACAM, ACMA}

\* A response nothing was written to.  A header that was never set reads
\* undefined; Node's statusCode is 200 until status() changes it.
FreshRes ==
    [headers |-> [h \in CorsHeaders |-> Undef],
     vary |-> <<>>,
     statusCode |-> 200,
     statusCalls |-> 0,
     endCalls |-> 0]

\* res.setHeader(name, value): overwrites.
setHeader(r, name, value) == [r EXCEPT !.headers[name] = value]

\* res.vary(name): cumulative; the model keeps every appended name.
vary(r, name) == [r EXCEPT !.vary = Append(@, name)]

\* res.status(code)
status(r, code) == [r EXCEPT !.statusCode = code, !.statusCalls = @ + 1]

\* res.end()
end(r) == [r EXCEPT !.endCalls = @ + 1]

(* ------------------------------ index.js ------------------------------ *)

\* const args = {req, res, ...options}.  The functions below write through
\* args.res; each is modelled as giving the args with the response updated.
Args(rq, rs, opts) ==
    [req |-> rq, res |-> rs,
     origin |-> opts.origin,
     credentials |-> opts.credentials,
     exposedHeaders |-> opts.exposedHeaders,
     headers |-> opts.headers,
     allowedHeaders |-> opts.allowedHeaders,
     methods |-> opts.methods,
     allowedMethods |-> opts.allowedMethods,
     maxAge |-> opts.maxAge]

\* a || b
Or(a, b) == IF Truthy(a) THEN a ELSE b

\* typeof(value) === Array compares the typeof string with the Array
\* constructor: no string is strictly equal to an object.
TypeofIsArray(value) == Typeof(value) = "function:Array"

\* CallDefval with a fault: the request's header is reflected without vary().
CallDefvalNoVary(defval, args) ==
    CASE defval.s = "allowedHeaders" -> [ret |-> args.req.headers.acrh, args |-> args]
      [] defval.s = "allowedMethods" -> [ret |-> args.req.headers.acrm, args |-> args]

\* The two arrow functions passed as defval: each calls vary() and returns
\* the request's header.
CallDefval(defval, args) ==
    CASE defval.s = "allowedHeaders" ->
            [ret |-> args.req.headers.acrh,
             args |-> [args EXCEPT !.res = vary(@, "Access-Control-Request-Headers")]]
      [] defval.s = "allowedMethods" ->
            [ret |-> args.req.headers.acrm,
             args |-> [args EXCEPT !.res = vary(@, "Access-Control-Request-Method")]]

getValueStr(value, defval, args) ==
    IF TypeofIsArray(value)
    THEN [ret |-> Str(ToString(value)), args |-> args]
    ELSE IF Truthy(value)
    THEN [ret |-> Str(ToString(value)), args |-> args]
    ELSE IF Typeof(defval) = "function"
    THEN CallDefval(defval, args)
    ELSE [ret |-> defval, args |-> args]

\* checkOrigins with a fault: the elements of a sequence are not evaluated
\* recursively, a nested sequence is compared as a string.
checkOriginsLeaf(reqOrigin, origins) ==
    CASE origins.t = "object:RegExp" -> RegExpTest(origins, reqOrigin)
      [] origins.t = "function" -> Call(origins, reqOrigin)
      [] OTHER -> Bool(Str(ToString(origins)) = reqOrigin)

checkOriginsFlat(reqOrigin, origins) ==
    IF origins.t = "object:Array"
    THEN Bool(\E i \in 1..Len(origins.e) : Truthy(checkOriginsLeaf(reqOrigin, origins.e[i])))
    ELSE checkOriginsLeaf(reqOrigin, origins)

RECURSIVE checkOrigins(_, _)
checkOrigins(reqOrigin, origins) ==
    CASE origins.t = "object:Array" ->
            Bool(\E i \in 1..Len(origins.e) : Truthy(checkOrigins(reqOrigin, origins.e[i])))
      [] origins.t = "object:RegExp" -> RegExpTest(origins, reqOrigin)
      [] origins.t = "function" -> Call(origins, reqOrigin)
      [] OTHER -> Bool(Str(ToString(origins)) = reqOrigin)

\* getOrigin with a fault: a fixed string is compared with the request's origin
\* like the element of a sequence.
getOriginNoFixed(reqOrigin, origins) ==
    IF origins = Undef \/ origins = Str("*") THEN Str("*")
    ELSE IF Truthy(checkOrigins(reqOrigin, origins)) THEN reqOrigin
    ELSE Undef

getOrigin(reqOrigin, origins) ==
    IF origins = Undef \/ origins = Str("*") THEN Str("*")
    ELSE IF Typeof(origins) = "string" THEN origins
    ELSE IF Truthy(checkOrigins(reqOrigin, origins)) THEN reqOrigin
    ELSE Undef

\* setOriginHeader with a fault: setOrigin returns the header value it wrote.
setOriginHeaderReturnsHeader(args, origin) ==
    [ret |-> Or(origin, Str("false")),
     args |-> [args EXCEPT !.res =
                 IF origin # Str("*")
                 THEN vary(setHeader(@, ACAO, Or(origin, Str("false"))), "Origin")
                 ELSE setHeader(@, ACAO, Or(origin, Str("false")))]]

\* setOriginHeader with a fault: "Origin" is appended to Vary for the wildcard too.
setOriginHeaderAlwaysVary(args, origin) ==
    [ret |-> origin,
     args |-> [args EXCEPT !.res =
                 vary(setHeader(@, ACAO, Or(origin, Str("false"))), "Origin")]]

\* The body of setOrigin once origin is computed.
setOriginHeader(args, origin) ==
    [ret |-> origin,
     args |-> [args EXCEPT !.res =
                 IF origin # Str("*")
                 THEN vary(setHeader(@, ACAO, Or(origin, Str("false"))), "Origin")
                 ELSE setHeader(@, ACAO, Or(origin, Str("false")))]]

setOrigin(args) ==
    setOriginHeader(args, getOrigin(args.req.headers.origin, args.origin))

\* setCredentials with a fault: the header is written whatever credentials is.
setCredentialsAlways(args) == [args EXCEPT !.res = setHeader(@, ACAC, Str("true"))]

setCredentials(args) ==
    IF Truthy(args.credentials)
    THEN [args EXCEPT !.res = setHeader(@, ACAC, Str("true"))]
    ELSE args

\* setHeaderIfTruthy with a fault: the value is appended to the header the
\* response already has.
setHeaderIfTruthyAppend(v, name) ==
    IF Truthy(v.ret)
    THEN [v.args EXCEPT !.res =
            setHeader(@, name,
                      IF @.headers[name] = Undef THEN v.ret
                      ELSE Str(@.headers[name].s \o "," \o v.ret.s))]
    ELSE v.args

\* if (headers) args.res.setHeader(name, headers)
setHeaderIfTruthy(v, name) ==
    IF Truthy(v.ret)
    THEN [v.args EXCEPT !.res = setHeader(@, name, v.ret)]
    ELSE v.args

\* if (headers && typeof(headers) === 'string') args.res.setHeader(name, headers)
setHeaderIfString(v, name) ==
    IF Truthy(v.ret) /\ Typeof(v.ret) = "string"
    THEN [v.args EXCEPT !.res = setHeader(@, name, v.ret)]
    ELSE v.args

\* args.res.setHeader(name, methods)
setHeaderAlways(v, name) == [v.args EXCEPT !.res = setHeader(@, name, v.ret)]

setExposedHeaders(args) ==
    setHeaderIfTruthy(getValueStr(args.exposedHeaders, Undef, args), ACEH)

setAllowedHeaders(args) ==
    setHeaderIfString(
        getValueStr(Or(args.headers, args.allowedHeaders), Fn("allowedHeaders"), args),
        ACAH)

setAllowedMethods(args) ==
    setHeaderAlways(getValueStr(args.methods, Fn("allowedMethods"), args), ACAM)

\* setMaxAge with a fault: maxAge is tested against undefined, so 0 is written.
setMaxAgeDefined(args) ==
    IF args.maxAge # Undef
    THEN [args EXCEPT !.res = setHeader(@, ACMA, Str(ToString(args.maxAge)))]
    ELSE args

setMaxAge(args) ==
    IF Truthy(args.maxAge)
    THEN [args EXCEPT !.res = setHeader(@, ACMA, Str(ToString(args.maxAge)))]
    ELSE args

\* IsPreflight with a fault: every OPTIONS request is a preflight.
IsPreflightAnyOptions(rq) == rq.method = "OPTIONS"

\* req.method === 'OPTIONS' && methods && typeof(methods) === 'string'
IsPreflight(rq) ==
    /\ rq.method = "OPTIONS"
    /\ Truthy(rq.headers.acrm)
    /\ Typeof(rq.headers.acrm) = "string"

\* res.status(200).end(); return res.statusCode;
Respond(r) == [ret |-> Num(r.statusCode), res |-> r]

\* The body of the if (setOrigin(args)) block.
setCorsAdmitted(rq, args) ==
    IF IsPreflight(rq)
    THEN Respond(end(status(setMaxAge(setAllowedHeaders(setAllowedMethods(args))).res, 200)))
    ELSE [ret |-> Num(0), res |-> args.res]

\* setCors from the result of setOrigin on; falling off the end of the
\* function returns undefined.
setCorsFrom(rq, o) ==
    IF Truthy(o.ret)
    THEN setCorsAdmitted(rq, setExposedHeaders(setCredentials(o.args)))
    ELSE [ret |-> Undef, res |-> o.args.res]

setCors(rq, rs, opts) == setCorsFrom(rq, setOrigin(Args(rq, rs, opts)))

\* Handler with a fault: next() is called whatever setCors returned.
HandlerAlwaysNext(r) == [ret |-> r.ret, res |-> r.res, next |-> 1]

\* cors(options): the handler (req, res, next) => { if (!setCors(...)) next(); }
\* next counts the calls of next().
Handler(r) == [ret |-> r.ret, res |-> r.res, next |-> IF ~Truthy(r.ret) THEN 1 ELSE 0]

cors(rq, rs, opts) == Handler(setCors(rq, rs, opts))

(* ---------------------------- src/index.js ---------------------------- *)

src_getValueStr(value, defval, args) ==
    IF TypeofIsArray(value)
    THEN [ret |-> Str(ToString(value)), args |-> args]
    ELSE IF Truthy(value)
    THEN [ret |-> Str(ToString(value)), args |-> args]
    ELSE IF Typeof(defval) = "function"
    THEN CallDefval(defval, args)
    ELSE [ret |-> defval, args |-> args]

src_setExposedHeaders(args) ==
    setHeaderIfTruthy(src_getValueStr(args.exposedHeaders, Undef, args), ACEH)

src_setAllowedHeaders(args) ==
    setHeaderIfString(
        src_getValueStr(Or(args.allowedHeaders, args.headers), Fn("allowedHeaders"), args),
        ACAH)

src_setAllowedMethods(args) ==
    setHeaderIfString(
        src_getValueStr(Or(args.allowedMethods, args.methods), Fn("allowedMethods"), args),
        ACAM)

src_setCorsAdmitted(rq, args) ==
    IF IsPreflight(rq)
    THEN Respond(end(status(
            setMaxAge(src_setAllowedHeaders(src_setAllowedMethods(args))).res, 200)))
    ELSE [ret |-> Num(0), res |-> args.res]

src_setCorsFrom(rq, o) ==
    IF Truthy(o.ret)
    THEN src_setCorsAdmitted(rq, src_setExposedHeaders(setCredentials(o.args)))
    ELSE [ret |-> Undef, res |-> o.args.res]

src_setCors(rq, rs, opts) == src_setCorsFrom(rq, setOrigin(Args(rq, rs, opts)))

src_cors(rq, rs, opts) == Handler(src_setCors(rq, rs, opts))

(* ----------------------- configurations and requests ------------------ *)

Options(o, c, e, h, ah, m, am, a) ==
    [origin |-> o, credentials |-> c, exposedHeaders |-> e,
     headers |-> h, allowedHeaders |-> ah,
     methods |-> m, allowedMethods |-> am, maxAge |-> a]

OriginPolicies ==
    {Undef, Str("*"), Str("https://a.example"), Str(""),
     RegExp("https://a."), Fn("isB"),
     Arr(<<RegExp("https://a."), Str("https://b.example")>>),
     Arr(<<Arr(<<Fn("isB")>>), Str("*")>>)}

CredentialsValues == {Undef, Bool(TRUE), Bool(FALSE)}

ExposedHeadersValues == {Undef, Str("X-Total"), Arr(<<Str("X-Total"), Str("ETag")>>), Arr(<<>>)}

\* <<headers, allowedHeaders>>
AllowedHeadersValues ==
    {<<Undef, Undef>>,
     <<Arr(<<Str("Content-Type"), Str("X-Token")>>), Undef>>,
     <<Undef, Str("X-Token")>>,
     <<Arr(<<>>), Undef>>,
     <<Str("X-A"), Arr(<<Str("X-B"), Str("X-C")>>)>>}

\* <<methods, allowedMethods>>
AllowedMethodsValues ==
    {<<Undef, Undef>>,
     <<Arr(<<Str("GET"), Str("POST")>>), Undef>>,
     <<Undef, Str("DELETE")>>,
     <<Arr(<<>>), Undef>>,
     <<Str("GET"), Arr(<<Str("PATCH"), Str("HEAD")>>)>>}

MaxAgeValues == {Undef, Num(0), Num(600)}

\* Every origin policy with every credentials / exposedHeaders value, and
\* every origin policy with every allowed-headers / allowed-methods / maxAge
\* value.
Configurations ==
    {Options(o, c, e, Undef, Undef, Undef, Undef, Undef) :
        o \in OriginPolicies, c \in CredentialsValues, e \in ExposedHeadersValues}
    \cup
    {Options(o, Bool(TRUE), Undef, h[1], h[2], m[1], m[2], a) :
        o \in OriginPolicies, h \in AllowedHeadersValues,
        m \in AllowedMethodsValues, a \in MaxAgeValues}

Request(method, origin, acrm, acrh) ==
    [method |-> method, headers |-> [origin |-> origin, acrm |-> acrm, acrh |-> acrh]]

RequestOrigins ==
    {Undef, Str("https://a.foo"), Str("https://b.example"), Str("https://c.example")}

Requests ==
    {Request(method, origin, acrm, acrh) :
        method \in {"GET", "OPTIONS"},
        origin \in RequestOrigins,
        acrm \in {Undef, Str(""), Str("PUT"), Arr(<<Str("PUT"), Str("POST")>>)},
        acrh \in {Undef, Str(""), Str("X-Custom,Content-Type"), Arr(<<Str("X-Custom")>>)}}

NoRequest == Request("", Undef, Undef, Undef)

(* --------------------------- the state machine ------------------------ *)

Implementations == {"index.js", "src/index.js"}

Init ==
    /\ impl \in Implementations
    /\ options \in Configurations
    /\ req = NoRequest
    /\ res = FreshRes
    /\ ret = Undef
    /\ nextCalls = 0
    /\ runs = 0
    /\ pc = "idle"

\* The host server hands a new request/response pair to the application.
Receive ==
    /\ pc = "idle"
    /\ req' \in Requests
    /\ pc' = "received"
    /\ UNCHANGED <<impl, options, res, ret, nextCalls, runs>>

\* The exchange is over: the application is ready for the next request,
\* which comes with a response of its own.
Complete ==
    /\ pc \in {"handled", "evaluated"}
    /\ req' = NoRequest
    /\ res' = FreshRes
    /\ ret' = Undef
    /\ nextCalls' = 0
    /\ runs' = 0
    /\ pc' = "idle"
    /\ UNCHANGED <<impl, options>>

\* The evaluation the configured file performs.
Evaluate(rq, rs, opts) ==
    IF impl = "index.js" THEN setCors(rq, rs, opts) ELSE src_setCors(rq, rs, opts)

Handle(rq, rs, opts) ==
    IF impl = "index.js" THEN cors(rq, rs, opts) ELSE src_cors(rq, rs, opts)

Deliver(r) ==
    /\ res' = r.res
    /\ ret' = r.ret
    /\ nextCalls' = nextCalls + r.next

Return(r) ==
    /\ res' = r.res
    /\ ret' = r.ret

\* The middleware returned by cors(options) runs on the pair.
Middleware ==
    /\ pc = "received"
    /\ Deliver(Handle(req, res, options))
    /\ runs' = runs + 1
    /\ pc' = "handled"
    /\ UNCHANGED <<impl, options, req>>

\* The application calls the exported setCors(req, res, options) itself.
SetCors ==
    /\ pc \in {"received", "evaluated"}
    /\ runs < MaxRuns
    /\ Return(Evaluate(req, res, options))
    /\ runs' = runs + 1
    /\ pc' = "evaluated"
    /\ UNCHANGED <<impl, options, req, nextCalls>>

Next == Receive \/ Middleware \/ SetCors \/ Complete

Spec == Init /\ [][Next]_vars

(* --------------------- the origin resolver on its own ----------------- *)

\* Longest sequence policy of SpecOrigin.
MaxLen == 2

Leaves == {Str("https://b.example"), RegExp("https://a."), Fn("isLocal")}

SeqsUpTo(S, n) == UNION {[1..k -> S] : k \in 0..n}

\* Sequences of leaves, and sequences of leaves and of such sequences.
FlatPolicies == {Arr(e) : e \in SeqsUpTo(Leaves, MaxLen)}

NestedPolicies == {Arr(e) : e \in SeqsUpTo(Leaves \cup FlatPolicies, MaxLen)}

ResolverPolicies == {RegExp("https://a."), Fn("isLocal")} \cup NestedPolicies

ResolverOrigins ==
    RequestOrigins \cup {Str("http://localhost:3000"), Str("https://a.example")}

InitOrigin ==
    /\ impl \in Implementations
    /\ options \in {Options(p, Undef, Undef, Undef, Undef, Undef, Undef, Undef) :
                        p \in ResolverPolicies}
    /\ req = NoRequest
    /\ res = FreshRes
    /\ ret = Undef
    /\ nextCalls = 0
    /\ runs = 0
    /\ pc = "idle"

\* getOrigin(req.headers.origin, options.origin), as setOrigin calls it.
ResolveOrigin ==
    /\ pc = "idle"
    /\ req' \in {Request("GET", o, Undef, Undef) : o \in ResolverOrigins}
    /\ ret' = getOrigin(req'.headers.origin, options.origin)
    /\ pc' = "resolved"
    /\ UNCHANGED <<impl, options, res, nextCalls, runs>>

NextOrigin == ResolveOrigin

SpecOrigin == InitOrigin /\ [][NextOrigin]_vars

(* ------------- evaluations on pairs that share a configuration ------------- *)

\* Request/response pairs whose evaluations are in progress at once.
NumPairs == 2

Pairs == 1..NumPairs

SharedConfigurations ==
    {Options(o, Bool(TRUE), Arr(<<Str("ETag")>>), Undef, Undef, m[1], m[2], Num(600)) :
        o \in {Undef, Arr(<<RegExp("https://a."), Str("https://b.example")>>), Fn("isB")},
        m \in {<<Undef, Undef>>, <<Arr(<<Str("GET"), Str("POST")>>), Undef>>}}

SharedRequests ==
    {Request(method, origin, Str("PUT"), Str("X-Custom,Content-Type")) :
        method \in {"GET", "OPTIONS"},
        origin \in {Str("https://a.foo"), Str("https://c.example")}}

\* In SpecShared req, res, ret and pc hold one value per pair; pc[i] names the
\* statement of setCors evaluation i executes next.
InitShared ==
    /\ impl \in Implementations
    /\ options \in SharedConfigurations
    /\ req \in [Pairs -> SharedRequests]
    /\ res = [i \in Pairs |-> FreshRes]
    /\ ret = [i \in Pairs |-> Undef]
    /\ nextCalls = 0
    /\ runs = 0
    /\ pc = [i \in Pairs |-> "setOrigin"]

\* Sink with a fault: every evaluation holds the response of the first pair.
SinkShared(i) == 1

\* The response evaluation i writes to: the res parameter of its call.
Sink(i) == i

\* const args = {req, res, ...options} of evaluation i.
Own(i) == Args(req[i], res[Sink(i)], options)

Write(i, r) == res' = [res EXCEPT ![Sink(i)] = r]

Goto(i, label) == pc' = [pc EXCEPT ![i] = label]

Returns(i, value) == ret' = [ret EXCEPT ![i] = value] /\ Goto(i, "done")

AfterSetOrigin(i, o) ==
    /\ Write(i, o.args.res)
    /\ IF Truthy(o.ret)
       THEN Goto(i, "setCredentials") /\ UNCHANGED ret
       ELSE Returns(i, Undef)

\* if (setOrigin(args))
StepSetOrigin(i) ==
    /\ pc[i] = "setOrigin"
    /\ AfterSetOrigin(i, setOrigin(Own(i)))
    /\ UNCHANGED <<impl, options, req, nextCalls, runs>>

StepSetCredentials(i) ==
    /\ pc[i] = "setCredentials"
    /\ Write(i, setCredentials(Own(i)).res)
    /\ Goto(i, "setExposedHeaders")
    /\ UNCHANGED <<impl, options, req, ret, nextCalls, runs>>

\* setExposedHeaders(args), then the test for a preflight request and the
\* return 0 of a request that is none.
StepSetExposedHeaders(i) ==
    /\ pc[i] = "setExposedHeaders"
    /\ Write(i, IF impl = "index.js"
                THEN setExposedHeaders(Own(i)).res
                ELSE src_setExposedHeaders(Own(i)).res)
    /\ IF IsPreflight(req[i])
       THEN Goto(i, "setAllowedMethods") /\ UNCHANGED ret
       ELSE Returns(i, Num(0))
    /\ UNCHANGED <<impl, options, req, nextCalls, runs>>

StepSetAllowedMethods(i) ==
    /\ pc[i] = "setAllowedMethods"
    /\ Write(i, IF impl = "index.js"
                THEN setAllowedMethods(Own(i)).res
                ELSE src_setAllowedMethods(Own(i)).res)
    /\ Goto(i, "setAllowedHeaders")
    /\ UNCHANGED <<impl, options, req, ret, nextCalls, runs>>

StepSetAllowedHeaders(i) ==
    /\ pc[i] = "setAllowedHeaders"
    /\ Write(i, IF impl = "index.js"
                THEN setAllowedHeaders(Own(i)).res
                ELSE src_setAllowedHeaders(Own(i)).res)
    /\ Goto(i, "setMaxAge")
    /\ UNCHANGED <<impl, options, req, ret, nextCalls, runs>>

StepSetMaxAge(i) ==
    /\ pc[i] = "setMaxAge"
    /\ Write(i, setMaxAge(Own(i)).res)
    /\ Goto(i, "end")
    /\ UNCHANGED <<impl, options, req, ret, nextCalls, runs>>

AfterEnd(i, r) == Write(i, r.res) /\ Returns(i, r.ret)

\* res.status(200).end(); return res.statusCode;
StepEnd(i) ==
    /\ pc[i] = "end"
    /\ AfterEnd(i, Respond(end(status(res[Sink(i)], 200))))
    /\ UNCHANGED <<impl, options, req, nextCalls, runs>>

NextShared ==
    \E i \in Pairs :
        \/ StepSetOrigin(i)
        \/ StepSetCredentials(i)
        \/ StepSetExposedHeaders(i)
        \/ StepSetAllowedMethods(i)
        \/ StepSetAllowedHeaders(i)
        \/ StepSetMaxAge(i)
        \/ StepEnd(i)

SpecShared == InitShared /\ [][NextShared]_vars

(* ------------------------------- claims ------------------------------- *)

\* setCors has run on the current request/response pair.
Evaluated == pc \in {"handled", "evaluated"}

Written(h) == res.headers[h] # Undef

InVary(name) == \E i \in 1..Len(res.vary) : res.vary[i] = name

\* The leaf elements of a policy, whatever their order and nesting.
RECURSIVE LeafSet(_)
LeafSet(p) ==
    IF p.t = "object:Array"
    THEN UNION {LeafSet(p.e[i]) : i \in 1..Len(p.e)}
    ELSE {p}

\* A leaf admits an origin: a string by equality, a regular expression
\* ^prefix by matching, a predicate by returning a truthy value.
LeafAdmits(l, o) ==
    CASE l.t = "string" -> o = l
      [] l.t = "object:RegExp" ->
            /\ o.t = "string"
            /\ Len(o.s) >= Len(l.s)
            /\ \A i \in 1..Len(l.s) : SubSeq(o.s, i, i) = SubSeq(l.s, i, i)
      [] l.t = "function" -> Call(l, o) \notin {Undef, Num(0), Bool(FALSE), Str("")}
      [] OTHER -> FALSE

\* The origin is admitted: the resolution yields a non-empty value.  The
\* wildcard and a non-empty fixed string admit every request.
Admits(p, o) ==
    CASE p = Undef \/ p = Str("*") -> TRUE
      [] p.t = "string" -> p.s # ""
      [] OTHER -> /\ o.t = "string"
                  /\ o.s # ""
                  /\ \E l \in LeafSet(p) : LeafAdmits(l, o)

Admitted == Admits(options.origin, req.headers.origin)

\* The request is a preflight: OPTIONS with a non-empty string
\* Access-Control-Request-Method.
PreflightRequest ==
    /\ req.method = "OPTIONS"
    /\ req.headers.acrm.t = "string"
    /\ req.headers.acrm.s # ""

\* C1: a request without an Origin header gets no CORS header, no Vary
\* entry, no status, no end of the response, and setCors returns 0.
C1_NoOriginNoCors ==
    (Evaluated /\ req.headers.origin = Undef) =>
        /\ \A h \in CorsHeaders : ~Written(h)
        /\ res.vary = <<>>
        /\ res.statusCalls = 0
        /\ res.endCalls = 0
        /\ ret = Num(0)

\* C2: after the handler of cors(options) ran, next() was called iff setCors
\* returned a falsy value, and exactly one of the two happened: the response
\* was ended with status 200 and next() was not called, or next() was called
\* once and the response was not ended.
C2_NextIffNotHandled ==
    pc = "handled" =>
        /\ nextCalls = 1 <=> ret \in {Undef, Num(0)}
        /\ \/ /\ res.endCalls = 1
              /\ res.statusCalls = 1
              /\ res.statusCode = 200
              /\ ret = Num(200)
              /\ nextCalls = 0
           \/ /\ res.endCalls = 0
              /\ res.statusCalls = 0
              /\ nextCalls = 1

C2_Witness == pc = "handled" /\ res.endCalls = 1 /\ nextCalls = 0

\* C3 as stated: status 200, end and the value 200 iff the origin is admitted
\* and the request is a preflight; otherwise no status, no end, and the
\* value 0.
C3_Original ==
    Evaluated =>
        IF Admitted /\ PreflightRequest
        THEN res.statusCalls >= 1 /\ res.endCalls >= 1
             /\ res.statusCode = 200 /\ ret = Num(200)
        ELSE res.statusCalls = 0 /\ res.endCalls = 0 /\ ret = Num(0)

\* C3 as amended: status 200, end and the value 200 iff the origin is admitted
\* and the request is a preflight; otherwise no status, no end, and a falsy
\* value: 0 when the origin is admitted, undefined when it is not.
C3_PreflightIff ==
    Evaluated =>
        IF Admitted /\ PreflightRequest
        THEN res.statusCalls >= 1 /\ res.endCalls >= 1
             /\ res.statusCode = 200 /\ ret = Num(200)
        ELSE res.statusCalls = 0 /\ res.endCalls = 0
             /\ ret = IF Admitted THEN Num(0) ELSE Undef

C3_Witness ==
    /\ Evaluated /\ Admitted /\ PreflightRequest
    /\ options.origin.t = "object:Array"
    /\ ret = Num(200) /\ res.endCalls = 1

\* C4: for a regex, predicate or (nested) sequence policy and a request that
\* carries an origin, getOrigin returns that origin iff some leaf of the
\* policy admits it and no value otherwise; the result depends only on the
\* set of leaves, hence not on their order or nesting.
C4_LeafAdmission ==
    (pc = "resolved" /\ req.headers.origin.t = "string") =>
        ret = IF \E l \in LeafSet(options.origin) : LeafAdmits(l, req.headers.origin)
              THEN req.headers.origin
              ELSE Undef

C4_Witness ==
    /\ pc = "resolved"
    /\ options.origin = Arr(<<Str("https://b.example"), Arr(<<Fn("isLocal"), RegExp("https://a.")>>)>>)
    /\ req.headers.origin = Str("https://a.foo")
    /\ ret = Str("https://a.foo")

\* The policy is a regular expression, a predicate or a sequence.
VariousOrigins == options.origin.t \in {"object:Array", "object:RegExp", "function"}

\* C5 as stated: an origin that a regex / predicate / sequence policy does
\* not admit gets Access-Control-Allow-Origin: false, setCors returns 0 and
\* the middleware calls next() without ending the response.
C5_Original ==
    (Evaluated /\ VariousOrigins /\ req.headers.origin.t = "string" /\ ~Admitted) =>
        /\ res.headers[ACAO] = Str("false")
        /\ ret = Num(0)
        /\ pc = "handled" => (nextCalls = 1 /\ res.endCalls = 0)

\* C5 as amended: an origin that a regex / predicate / sequence policy does
\* not admit gets Access-Control-Allow-Origin: false, setCors returns
\* undefined and the middleware calls next() without ending the response,
\* also for an OPTIONS request with Access-Control-Request-Method.
C5_DeniedOrigin ==
    (Evaluated /\ VariousOrigins /\ req.headers.origin.t = "string" /\ ~Admitted) =>
        /\ res.headers[ACAO] = Str("false")
        /\ ret = Undef
        /\ pc = "handled" => (nextCalls = 1 /\ res.endCalls = 0)

C5_Witness ==
    /\ pc = "handled" /\ VariousOrigins /\ ~Admitted /\ PreflightRequest
    /\ req.headers.origin = Str("https://c.example")
    /\ res.headers[ACAO] = Str("false")
    /\ nextCalls = 1

\* C6: with the policy unset or "*", Access-Control-Allow-Origin is "*" and
\* "Origin" is never appended to Vary, whatever the request.
C6_Wildcard ==
    (Evaluated /\ options.origin \in {Undef, Str("*")}) =>
        /\ res.headers[ACAO] = Str("*")
        /\ ~InVary("Origin")

C6_Witness ==
    /\ Evaluated /\ options.origin = Undef
    /\ req.headers.origin = Str("https://a.foo")
    /\ res.headers[ACAO] = Str("*")

\* C7 as stated: with a fixed string policy other than "*",
\* Access-Control-Allow-Origin is that string for every requesting origin and
\* "Origin" is appended to Vary.
C7_Original ==
    (Evaluated /\ options.origin.t = "string" /\ options.origin # Str("*")) =>
        /\ res.headers[ACAO] = options.origin
        /\ InVary("Origin")

\* C7 as amended: with a non-empty fixed string policy other than "*",
\* Access-Control-Allow-Origin is that string for every requesting origin and
\* "Origin" is appended to Vary.
C7_FixedOrigin ==
    (Evaluated /\ options.origin.t = "string" /\ options.origin # Str("*")
        /\ options.origin.s # "") =>
        /\ res.headers[ACAO] = options.origin
        /\ InVary("Origin")

C7_Witness ==
    /\ Evaluated /\ options.origin = Str("https://a.example")
    /\ req.headers.origin = Str("https://c.example")
    /\ res.headers[ACAO] = Str("https://a.example")
    /\ InVary("Origin")

\* C8: Access-Control-Allow-Credentials is written iff credentials is truthy
\* and the origin is admitted, on preflight and other requests alike, and its
\* value is "true".
C8_Credentials ==
    Evaluated =>
        /\ Written(ACAC) <=> (options.credentials \notin {Undef, Bool(FALSE)} /\ Admitted)
        /\ Written(ACAC) => res.headers[ACAC] = Str("true")

C8_Witness ==
    /\ Evaluated /\ VariousOrigins /\ Admitted /\ ~PreflightRequest
    /\ options.credentials = Bool(TRUE)
    /\ res.headers[ACAC] = Str("true")

NonEmptyString(v) == v.t = "string" /\ v.s # ""

\* C9: on a recognized preflight with no allowed methods (headers)
\* configured, Access-Control-Request-Method (-Headers) is appended to Vary
\* and Access-Control-Allow-Methods (-Headers) is the request's header value;
\* the allow header is written only for a non-empty string, the Vary entry
\* also when the request header is absent.
C9_Reflection ==
    (Evaluated /\ Admitted /\ PreflightRequest) =>
        /\ (options.methods = Undef /\ options.allowedMethods = Undef) =>
              /\ InVary("Access-Control-Request-Method")
              /\ res.headers[ACAM] = req.headers.acrm
        /\ (options.headers = Undef /\ options.allowedHeaders = Undef) =>
              /\ InVary("Access-Control-Request-Headers")
              /\ res.headers[ACAH] =
                    IF NonEmptyString(req.headers.acrh) THEN req.headers.acrh ELSE Undef

C9_Witness ==
    /\ Evaluated /\ Admitted /\ PreflightRequest
    /\ options.methods = Undef /\ options.allowedMethods = Undef
    /\ options.headers = Undef /\ options.allowedHeaders = Undef
    /\ req.headers.acrh = Undef
    /\ InVary("Access-Control-Request-Headers")
    /\ ~Written(ACAH)
    /\ res.headers[ACAM] = Str("PUT")

\* The strings of a sequence joined by ",".
RECURSIVE JoinComma(_)
JoinComma(e) ==
    IF e = <<>> THEN ""
    ELSE IF Len(e) = 1 THEN e[1].s
    ELSE e[1].s \o "," \o JoinComma(Tail(e))

\* The header a configured sequence yields: none when it renders empty.
JoinedHeader(v) == IF JoinComma(v.e) = "" THEN Undef ELSE Str(JoinComma(v.e))

IsSequence(v) == v.t = "object:Array"

\* C10: a sequence configured as exposedHeaders, headers or methods is
\* written joined by "," in order; the preflight-only headers then do not
\* depend on the request's Access-Control-Request-* headers, whose names are
\* not appended to Vary; an empty sequence yields no header write.
C10_Original ==
    (Evaluated /\ Admitted) =>
        /\ IsSequence(options.exposedHeaders) =>
              res.headers[ACEH] = JoinedHeader(options.exposedHeaders)
        /\ (PreflightRequest /\ IsSequence(options.methods)
                /\ options.allowedMethods = Undef) =>
              /\ res.headers[ACAM] = JoinedHeader(options.methods)
              /\ ~InVary("Access-Control-Request-Method")
        /\ (PreflightRequest /\ IsSequence(options.headers)
                /\ options.allowedHeaders = Undef) =>
              /\ res.headers[ACAH] = JoinedHeader(options.headers)
              /\ ~InVary("Access-Control-Request-Headers")

\* The decimal numeral of a natural number.
RECURSIVE Decimal(_)
Decimal(n) ==
    LET digits == <<"0", "1", "2", "3", "4", "5", "6", "7", "8", "9">>
    IN IF n < 10 THEN digits[n + 1] ELSE Decimal(n \div 10) \o digits[(n % 10) + 1]

\* C11: Access-Control-Max-Age is written iff the request is a recognized
\* preflight with an admitted origin and maxAge is configured and non-zero;
\* its value is the decimal string of maxAge; with maxAge 0 or unset it is
\* never written.
C11_MaxAge ==
    Evaluated =>
        /\ Written(ACMA) <=>
              /\ Admitted
              /\ PreflightRequest
              /\ options.maxAge.t = "number"
              /\ options.maxAge.n # 0
        /\ Written(ACMA) => res.headers[ACMA] = Str(Decimal(options.maxAge.n))

C11_Witness ==
    /\ Evaluated /\ Admitted /\ PreflightRequest
    /\ options.maxAge = Num(600)
    /\ res.headers[ACMA] = Str("600")

\* The field names passed to vary() so far.
VaryNames(r) == {r.vary[i] : i \in 1..Len(r.vary)}

C13_Original ==
    Evaluated => ~(res.headers[ACAO] = Str("*") /\ res.headers[ACAC] = Str("true"))

Supplied(v) == Truthy(v) /\ ToString(v) # ""

\* The renderings of the supplied values among the two names of a pair.
Renderings(a, b) == {Str(ToString(v)) : v \in {w \in {a, b} : Supplied(w)}}

\* C15: on a recognized preflight with an admitted origin, when a value is
\* supplied as allowedMethods or as methods, Access-Control-Allow-Methods is
\* the rendering of one of the supplied values and the request's
\* Access-Control-Request-Method is not consulted; likewise for allowedHeaders
\* or headers and Access-Control-Allow-Headers.
C15_Original ==
    (Evaluated /\ Admitted /\ PreflightRequest) =>
        /\ Renderings(options.methods, options.allowedMethods) # {} =>
              /\ res.headers[ACAM] \in Renderings(options.methods, options.allowedMethods)
              /\ ~InVary("Access-Control-Request-Method")
        /\ Renderings(options.headers, options.allowedHeaders) # {} =>
              /\ res.headers[ACAH] \in Renderings(options.headers, options.allowedHeaders)
              /\ ~InVary("Access-Control-Request-Headers")

====
